---- MODULE Spec2Model ----
(***************************************************************************)
(* A model of src/utils.py, the utility functions of the SESEMI training   *)
(* pipeline: geometric_transform, stratified_sample, datagen,              *)
(* datagen_tinyimages, load_tinyimages, LRScheduler and DenseEvaluator.    *)
(*                                                                         *)
(* Every function is modelled by its own group of variables and its own    *)
(* specification (SpecGeo, SpecLR, ...); the groups a specification does   *)
(* not use stay at their idle value.                                       *)
(*                                                                         *)
(* Arrays are 0-based as in numpy where an index is computed (pixels,      *)
(* bytes, one-hot vectors) and are TLA+ sequences (1-based) where the      *)
(* code builds a Python list or stacks rows: row r of the code is element  *)
(* r + 1 of the sequence.                                                  *)
(***************************************************************************)
EXTENDS Integers, Sequences, FiniteSets, TLC

VARIABLES
    \* geometric_transform: the argument and the two returned lists
    image, images, labels,
    \* LRScheduler: self.base_lr, self.max_iter, self.power, self.batches,
    \* the optimizer's learning rate and the line on_epoch_begin prints
    base_lr, max_iter, power, batches, lr, printed,
    \* stratified_sample: the arguments, the loop variable, the list built
    \* and the returned value
    label_array, labels_per_class, cls, samples, returned,
    \* load_tinyimages: the file and its position, the argument, the number
    \* of indices done, the (n, 3, 32, 32) buffer, the returned array and the
    \* function's position
    file, f_pos, indices, n_read, raw, loaded, load_pc,
    \* datagen and datagen_tinyimages: items taken from each iterator, the
    \* argument, the lists of the current round, the index array, the
    \* generator's position, the batch yielded last and the number of yields
    super_pos, self_pos, extra_pos, batch_size, super_items, self_items,
    extra_items, inds, pc, batch, nyield,
    \* DenseEvaluator: the arguments, self.data, self.labels, self.hflip,
    \* self.inference_model, the object's phase and what on_epoch_end computed
    x_val, y_val, hflip_arg, data, ev_labels, hflip, inference_model, ev_pc,
    y_pred, error

geoVars == <<image, images, labels>>
lrVars == <<base_lr, max_iter, power, batches, lr, printed>>
stratVars == <<label_array, labels_per_class, cls, samples, returned>>
loadVars == <<file, f_pos, indices, n_read, raw, loaded, load_pc>>
genVars == <<super_pos, self_pos, extra_pos, batch_size, super_items, self_items,
             extra_items, inds, pc, batch, nyield>>
evalVars == <<x_val, y_val, hflip_arg, data, ev_labels, hflip, inference_model,
              ev_pc, y_pred, error>>
vars == <<geoVars, lrVars, stratVars, loadVars, genVars, evalVars>>

\* the value of every variable of a group that a specification does not use
GeoIdle == image = <<>> /\ images = <<>> /\ labels = <<>>
LRIdle ==
    /\ base_lr = 0 /\ max_iter = 0 /\ power = <<>> /\ batches = 0
    /\ lr = <<>> /\ printed = <<>>
StratIdle ==
    /\ label_array = <<>> /\ labels_per_class = 0 /\ cls = 0
    /\ samples = <<>> /\ returned = FALSE
LoadIdle ==
    /\ file = <<>> /\ f_pos = 0 /\ indices = <<>> /\ n_read = 0
    /\ raw = <<>> /\ loaded = <<>> /\ load_pc = "idle"
GenIdle ==
    /\ super_pos = 0 /\ self_pos = 0 /\ extra_pos = 0 /\ batch_size = 0
    /\ super_items = <<>> /\ self_items = <<>> /\ extra_items = <<>>
    /\ inds = <<>> /\ pc = "idle" /\ batch = <<>> /\ nyield = 0
EvalIdle ==
    /\ x_val = <<>> /\ y_val = <<>> /\ hflip_arg = FALSE /\ data = <<>>
    /\ ev_labels = <<>> /\ hflip = FALSE /\ inference_model = 0
    /\ ev_pc = "idle" /\ y_pred = <<>> /\ error = <<>>

(***************************************************************************)
(* Bounds of the model.  The code works on 32 x 32 x 3 images; the model   *)
(* keeps the layout and scales the sizes down.                             *)
(***************************************************************************)
\* side of an image (32 in the code)
Side == 2
\* channels of an image (3 in the code)
Chan == 2
\* largest pixel value of an input image
MaxPix == 15

\* proxy_labels, the default of geometric_transform and the width of self_clf
ProxyLabels == 6

NPix == Side * Side * Chan
Rows == 0 .. Side - 1
Chans == 0 .. Chan - 1

(***************************************************************************)
(* numpy helpers on Side x Side x Chan arrays, f[r, c, ch].                *)
(***************************************************************************)
\* np.reshape(image, (32, 32, 3)): row-major (C order) view of the flat data
reshape(flat) ==
    [r \in Rows, c \in Rows, ch \in Chans |-> flat[(r * Side + c) * Chan + ch + 1]]

\* np.flip(m, axis) for axis 0 (rows) and axis 1 (columns)
flip(m, axis) ==
    [r \in Rows, c \in Rows, ch \in Chans |->
        IF axis = 0 THEN m[Side - 1 - r, c, ch] ELSE m[r, Side - 1 - c, ch]]

\* np.transpose(m, (1, 0, 2)): the two image axes swapped
transpose(m) == [r \in Rows, c \in Rows, ch \in Chans |-> m[c, r, ch]]

\* np.rot90(m, k), axes (0, 1), as numpy computes it
rot90(m, k) ==
    LET kk == k % 4
    IN  CASE kk = 0 -> m
          [] kk = 2 -> flip(flip(m, 0), 1)
          [] kk = 1 -> transpose(flip(m, 1))
          [] OTHER  -> flip(transpose(m), 1)

fliplr(m) == flip(m, 1)
flipud(m) == flip(m, 0)

\* keras.utils.to_categorical(i, n): the one-hot vector of length n
to_categorical(i, n) == [j \in 0 .. n - 1 |-> IF j = i THEN 1 ELSE 0]

\* the body of the loop of geometric_transform for one i
MutTransformView(img, i) ==
    IF i <= 3 THEN rot90(img, i)
    ELSE IF i = 4 THEN flipud(img)
    ELSE fliplr(img)

TransformView(img, i) ==
    IF i <= 3 THEN rot90(img, i)
    ELSE IF i = 4 THEN fliplr(img)
    ELSE flipud(img)

\* geometric_transform(image, proxy_labels): (images, labels)
geometric_transform(flat, proxy_labels) ==
    LET img == reshape(flat)
    IN  [images |-> [n \in 1 .. proxy_labels |-> TransformView(img, n - 1)],
         labels |-> [n \in 1 .. proxy_labels |-> to_categorical(n - 1, proxy_labels)]]

\* the input images of the model: pixel p holds (s + p * k) mod (MaxPix + 1)
InputImages ==
    {[p \in 1 .. NPix |-> (s + p * k) % (MaxPix + 1)] : s \in 0 .. MaxPix, k \in 0 .. MaxPix}

GeoInit == image \in InputImages /\ images = <<>> /\ labels = <<>>

\* images, labels = geometric_transform(image)
GeometricTransform ==
    /\ images = <<>>
    /\ LET res == geometric_transform(image, ProxyLabels)
       IN  images' = res.images /\ labels' = res.labels
    /\ UNCHANGED <<image, lrVars, stratVars, loadVars, genVars, evalVars>>

InitGeo == GeoInit /\ LRIdle /\ StratIdle /\ LoadIdle /\ GenIdle /\ EvalIdle
NextGeo == GeometricTransform
SpecGeo == InitGeo /\ [][NextGeo]_vars

\* pixel [r, c, ch] of the argument, read as a Side x Side x Chan array
ArgPixel(r, c, ch) == image[(r * Side + c) * Chan + ch + 1]

\* m turned by one quarter turn (counterclockwise, the direction of np.rot90)
QuarterTurn(m) == [r \in Rows, c \in Rows, ch \in Chans |-> m[c, Side - 1 - r, ch]]

C2_Views ==
    images # <<>> =>
        /\ Len(images) = 6 /\ Len(labels) = 6
        /\ \A i \in 0 .. 5 :
              /\ DOMAIN labels[i + 1] = 0 .. 5
              /\ \A j \in 0 .. 5 : labels[i + 1][j] = (IF j = i THEN 1 ELSE 0)
        /\ \A r \in Rows, c \in Rows, ch \in Chans :
              /\ images[1][r, c, ch] = ArgPixel(r, c, ch)
              /\ images[5][r, c, ch] = ArgPixel(r, Side - 1 - c, ch)
              /\ images[6][r, c, ch] = ArgPixel(Side - 1 - r, c, ch)
        /\ \A i \in 1 .. 3 : images[i + 1] = QuarterTurn(images[i])

\* C2: geometric_transform(image) returns 6 images and 6 labels in index
\* order: label i is the one-hot vector of length 6 with its 1 at i, image i
\* for i in 0..3 is the input turned by i quarter turns (image 0 the input
\* itself), image 4 the input with its columns reversed, image 5 the input
\* with its rows reversed; and the call never changes the input image.
C2_GeometricTransform == [](C2_Views) /\ [][image' = image]_vars

\* the call has returned for an image whose six views are pairwise different
C2_Witness ==
    /\ Len(images) = 6
    /\ \A i, j \in 1 .. 6 : i # j => images[i] # images[j]

(***************************************************************************)
(* LRScheduler.  A rate is kept exactly: the record [q, num, den] stands   *)
(* for the number v with v^q = num / den (v >= 0 when q = 2); a power is   *)
(* the fraction p / q with q in {1, 2}, so 0.5, the default, is            *)
(* [p |-> 1, q |-> 2].  With q = 2 and num < 0 the code's float ** float   *)
(* has no real value (Python returns a complex number).                    *)
(***************************************************************************)
\* largest base_lr (in units of the smallest one) and largest max_iter
MaxBaseLr == 2
MaxIter == 3
\* largest numerator of a power
MaxPowNum == 2
\* batches the model runs past max_iter
Overrun == 2

RECURSIVE Pow(_, _)
Pow(b, e) == IF e = 0 THEN 1 ELSE b * Pow(b, e - 1)

Powers == {pw \in [p : 1 .. MaxPowNum, q : {1, 2}] : pw.q = 2 => pw.p % 2 = 1}

\* a number r given as a rate record
Rate(r) == [q |-> 1, num |-> r, den |-> 1]

\* self.base_lr * (1.0 - (k / self.max_iter)) ** self.power
PolyRate(base, k, m, pw) ==
    [q |-> pw.q, num |-> Pow(base, pw.q) * Pow(m - k, pw.p), den |-> Pow(m, pw.p)]

\* LRScheduler(base_lr, max_iter, power) on a model whose optimizer was
\* built with some learning rate lrate
LRInit ==
    /\ base_lr \in 1 .. MaxBaseLr
    /\ max_iter \in 1 .. MaxIter
    /\ power \in Powers
    /\ batches = 0
    /\ \E lrate \in 1 .. MaxBaseLr : lr = Rate(lrate)
    /\ printed = <<>>

on_batch_begin ==
    /\ batches < max_iter + Overrun
    /\ lr' = PolyRate(base_lr, batches, max_iter, power)
    /\ batches' = batches + 1
    /\ UNCHANGED <<base_lr, max_iter, power, printed>>
    /\ UNCHANGED <<geoVars, stratVars, loadVars, genVars, evalVars>>

\* bug variant: the schedule restarts with every epoch
Mut_on_epoch_begin ==
    /\ printed' = lr
    /\ batches' = 0
    /\ UNCHANGED <<base_lr, max_iter, power, lr>>
    /\ UNCHANGED <<geoVars, stratVars, loadVars, genVars, evalVars>>

on_epoch_begin ==
    /\ printed' = lr
    /\ UNCHANGED <<base_lr, max_iter, power, batches, lr>>
    /\ UNCHANGED <<geoVars, stratVars, loadVars, genVars, evalVars>>

InitLR == GeoIdle /\ LRInit /\ StratIdle /\ LoadIdle /\ GenIdle /\ EvalIdle
NextLR == on_batch_begin \/ on_epoch_begin
SpecLR == InitLR /\ [][NextLR]_vars

\* comparisons of two real rates with the same q (both >= 0 when q = 2)
RateLeq(a, b) == a.num * b.den <= b.num * a.den
RateIsBase(a) == a.num = Pow(base_lr, a.q) * a.den
RateIsZero(a) == a.num = 0
RateLeqBase(a) == a.num <= Pow(base_lr, a.q) * a.den
\* the rate before batch k as the claim gives it: the v >= 0 with
\* v^q * max_iter^p = base_lr^q * (max_iter - k)^p
RateIsSchedule(a, k) ==
    /\ a.q = power.q
    /\ a.num * Pow(max_iter, power.p) = Pow(base_lr, power.q) * Pow(max_iter - k, power.p) * a.den
    /\ (k <= max_iter => a.num >= 0)

C3_Rate ==
    batches >= 1 =>
        LET k == batches - 1
        IN  /\ RateIsSchedule(lr, k)
            /\ (k = 0 => RateIsBase(lr))
            /\ (k <= max_iter =>
                  /\ RateLeq(Rate(0), lr)
                  /\ RateLeqBase(lr)
                  /\ (RateIsZero(lr) <=> k = max_iter))

C3_Step ==
    /\ (batches' # batches \/ lr' # lr) => batches' = batches + 1
    /\ (batches >= 1 /\ batches' = batches + 1 /\ batches <= max_iter)
          => RateLeq(lr', lr)

MaxLen == 4
MaxLabel == 2
MaxPerClass == 2

Range(s) == {s[i] : i \in DOMAIN s}

\* len(set(label_array))
NumLabels(arr) == Cardinality(Range(arr))

\* np.where(arr == c)[0]: the indices holding c, ascending
RECURSIVE where(_, _, _)
where(arr, c, from) ==
    IF from >= Len(arr) THEN <<>>
    ELSE IF arr[from + 1] = c THEN <<from>> \o where(arr, c, from + 1)
    ELSE where(arr, c, from + 1)

\* what np.random.shuffle can leave in an array holding s (distinct values)
Shuffles(s) ==
    {t \in [1 .. Len(s) -> Range(s)] : \A i, j \in 1 .. Len(s) : i # j => t[i] # t[j]}

Min(a, b) == IF a <= b THEN a ELSE b

\* bug variant of the slice: one element too many
MutTake(s, n) == SubSeq(s, 1, Min(n + 1, Len(s)))

\* s[:n] for n >= 0
Take(s, n) == SubSeq(s, 1, Min(n, Len(s)))

StratInit ==
    /\ \E n \in 0 .. MaxLen : label_array \in [1 .. n -> 0 .. MaxLabel]
    /\ labels_per_class \in 0 .. MaxPerClass
    /\ cls = 0
    /\ samples = <<>>
    /\ returned = FALSE

\* one iteration of "for cls in range(len(set(label_array)))"
SampleClass ==
    /\ ~returned
    /\ cls < NumLabels(label_array)
    /\ \E shuffled \in Shuffles(where(label_array, cls, 0)) :
          samples' = samples \o Take(shuffled, labels_per_class)
    /\ cls' = cls + 1
    /\ UNCHANGED <<label_array, labels_per_class, returned>>
    /\ UNCHANGED <<geoVars, lrVars, loadVars, genVars, evalVars>>

\* the loop is over: return samples
SampleReturn ==
    /\ ~returned
    /\ cls = NumLabels(label_array)
    /\ returned' = TRUE
    /\ UNCHANGED <<label_array, labels_per_class, cls, samples>>
    /\ UNCHANGED <<geoVars, lrVars, loadVars, genVars, evalVars>>

InitStrat == GeoIdle /\ LRIdle /\ StratInit /\ LoadIdle /\ GenIdle /\ EvalIdle
NextStrat == SampleClass \/ SampleReturn
SpecStrat == InitStrat /\ [][NextStrat]_vars

\* the labels that occur are exactly 0 .. K-1
Contiguous == Range(label_array) = 0 .. NumLabels(label_array) - 1
\* the label of the element a returned index points at
LabelAt(idx) == label_array[idx + 1]
CountOf(c) == Cardinality({i \in DOMAIN label_array : label_array[i] = c})

C6_Result ==
    (returned /\ Contiguous) =>
        /\ \A i \in DOMAIN samples : samples[i] \in 0 .. Len(label_array) - 1
        /\ \A i, j \in DOMAIN samples : i # j => samples[i] # samples[j]
        /\ \A c \in Range(label_array) :
              Cardinality({i \in DOMAIN samples : LabelAt(samples[i]) = c})
                  = Min(labels_per_class, CountOf(c))
        /\ \A i, j \in DOMAIN samples : i < j => LabelAt(samples[i]) <= LabelAt(samples[j])

\* C6: for labels that are exactly 0..K-1 and labels_per_class >= 0 the
\* returned list holds pairwise distinct valid indices, for every class c
\* exactly min(labels_per_class, number of elements labelled c) of them, each
\* pointing at an element labelled c, class by class in ascending order; and
\* label_array is never modified.
C6_StratifiedSample == [](C6_Result) /\ [][label_array' = label_array]_vars

\* a sample was returned in which one class was cut to labels_per_class and
\* another had fewer elements than that
C6_Witness ==
    /\ returned /\ Contiguous
    /\ \E c, d \in Range(label_array) :
          /\ CountOf(c) > labels_per_class
          /\ CountOf(d) < labels_per_class
    /\ Len(samples) >= 2

\* C10: for any non-negative labels, contiguous or not, and labels_per_class
\* >= 1, the returned list holds at least one index of every label value
\* that occurs in the array.
C10_EveryLabelSampled ==
    (returned /\ labels_per_class >= 1) =>
        \A v \in Range(label_array) :
            \E i \in DOMAIN samples : LabelAt(samples[i]) = v

(***************************************************************************)
(* load_tinyimages(indices).  The file holds records of 3 x 32 x 32 bytes  *)
(* (Chan x Side x Side in the model); element o + 1 of file is the byte at *)
(* offset o.  Only indices of records the file holds are drawn: a read     *)
(* past the end of the file returns too few bytes and np.reshape raises.   *)
(* A value b / 255 is kept as the fraction [num |-> b, den |-> 255].       *)
(***************************************************************************)
\* records in the file, longest index list, number of files drawn
MaxRec == 3
MaxIdx == 3
MaxFileSeed == 1

\* the divisor of the last line of load_tinyimages (a byte is 0 .. 255)
ByteMax == 255

\* 3072, the bytes of one record
RecSize == Chan * Side * Side

\* the files of the model: byte o of file number seed
FileOf(seed) ==
    [o \in 1 .. MaxRec * RecSize |-> ((o - 1) * 37 + seed * 101) % (ByteMax + 1)]

\* f.seek(3072 * idx): the new position
SeekTo(idx) == RecSize * idx

\* np.fromfile(f, dtype='uint8', count=3072) at position pos
fromfile(f, pos) == [j \in 0 .. RecSize - 1 |-> f[pos + j + 1]]

\* np.reshape(image, (3, 32, 32)): row-major
reshape3(bytes) ==
    [c \in Chans, a \in Rows, b \in Rows |-> bytes[c * Side * Side + a * Side + b]]

\* bug variant: the channel axis moved last without swapping rows and columns
MutToImage(block) ==
    [a \in Rows, b \in Rows, c \in Chans |-> [num |-> block[c, a, b], den |-> ByteMax]]

\* np.transpose(images, (0, 3, 2, 1)) / 255. for one image
ToImage(block) ==
    [b \in Rows, a \in Rows, c \in Chans |-> [num |-> block[c, a, b], den |-> ByteMax]]

LoadInit ==
    /\ \E seed \in 0 .. MaxFileSeed : file = FileOf(seed)
    /\ f_pos = 0
    /\ \E n \in 0 .. MaxIdx : indices \in [1 .. n -> 0 .. MaxRec - 1]
    /\ n_read = 0
    /\ raw = [i \in 1 .. Len(indices) |-> [c \in Chans, a \in Rows, b \in Rows |-> 0]]
    /\ loaded = <<>>
    /\ load_pc = "loop"

\* one iteration of "for i, idx in enumerate(indices)"
ReadImage ==
    /\ load_pc = "loop"
    /\ n_read < Len(indices)
    /\ LET idx == indices[n_read + 1]
           pos == SeekTo(idx)
       IN  /\ raw' = [raw EXCEPT ![n_read + 1] = reshape3(fromfile(file, pos))]
           /\ f_pos' = pos + RecSize
    /\ n_read' = n_read + 1
    /\ UNCHANGED <<file, indices, loaded, load_pc>>
    /\ UNCHANGED <<geoVars, lrVars, stratVars, genVars, evalVars>>

\* the file is closed; transpose, divide and return
LoadReturn ==
    /\ load_pc = "loop"
    /\ n_read = Len(indices)
    /\ loaded' = [i \in 1 .. Len(raw) |-> ToImage(raw[i])]
    /\ load_pc' = "done"
    /\ UNCHANGED <<file, f_pos, indices, n_read, raw>>
    /\ UNCHANGED <<geoVars, lrVars, stratVars, genVars, evalVars>>

InitLoad == GeoIdle /\ LRIdle /\ StratIdle /\ LoadInit /\ GenIdle /\ EvalIdle
NextLoad == ReadImage \/ LoadReturn
SpecLoad == InitLoad /\ [][NextLoad]_vars

\* the byte at offset o of the file
ByteAt(o) == file[o + 1]

\* C7: load_tinyimages(indices) returns len(indices) images in the order of
\* indices (any order, duplicates allowed); image i is built from the record
\* that starts at byte 3072 * indices[i] whatever was read before; the byte
\* at position c*1024 + a*32 + b of the record ends up at [b, a, c] of the
\* image, as the value byte / 255, which lies in [0, 1].
C7_LoadTinyImages ==
    load_pc = "done" =>
        /\ Len(loaded) = Len(indices)
        /\ \A i \in 1 .. Len(indices) :
              \A c \in Chans, a \in Rows, b \in Rows :
                  LET v == loaded[i][b, a, c]
                  IN  /\ v.num = ByteAt(RecSize * indices[i] + c * Side * Side + a * Side + b)
                      /\ v.den = 255
                      /\ 0 <= v.num /\ v.num <= v.den

\* images were returned for indices that go backwards and repeat
C7_Witness ==
    /\ load_pc = "done"
    /\ Len(indices) >= 3
    /\ indices[1] > indices[2]
    /\ indices[3] = indices[1]
    /\ loaded[1] # loaded[2]

(***************************************************************************)
(* datagen(super_iter, self_iter, batch_size) and the model open_sesemi    *)
(* builds.  An iterator is the number of items taken from it: item n of    *)
(* super_iter is the pair SuperItem(n) of a 1-row image array and a 1-row  *)
(* label array (what a Keras flow with batch size 1 gives), item n of      *)
(* self_iter is the flat image SelfImage(n).  Every next() either returns  *)
(* the next item or raises StopIteration; raised inside the generator's    *)
(* body, StopIteration leaves it as a RuntimeError (PEP 479).  One step of *)
(* the model is one next() on an iterator, one unpacking or one resumption *)
(* of the generator.  pc is the generator's position: "super" and "self"   *)
(* (drawing), "yielded" (suspended at the yield), "RuntimeError" and       *)
(* "ValueError" (ended by that exception).  The loop is "while(True)":     *)
(* there is no position at which the generator has returned.               *)
(***************************************************************************)
\* the code's 32, the self-supervised items that fill one batch
SelfTotal == 2
\* resumptions of a generator
MaxRounds == 2
\* nb_classes of the supervised head
NbClasses == 3

\* super_batch: 192 in the code, which is 6 * 32
SuperBatch == ProxyLabels * SelfTotal
\* largest batch_size drawn
MaxBatch == SelfTotal + 1

\* the image that is item n of stream number k; no two items are alike
ItemImage(k, n) == [p \in 1 .. NPix |-> (3 * n + k) * NPix + p]

SuperItem(n) ==
    <<  <<reshape(ItemImage(0, n))>>,  <<to_categorical(n % NbClasses, NbClasses)>>  >>
SelfImage(n) == ItemImage(1, n)
ExtraImage(n) == ItemImage(2, n)

\* np.vstack of a list of arrays: their rows, one array after the other
RECURSIVE vstack(_)
vstack(arrs) == IF arrs = <<>> THEN <<>> ELSE Head(arrs) \o vstack(Tail(arrs))

\* zip(*pairs) for a non-empty list: the firsts and the seconds
Firsts(pairs) == [i \in 1 .. Len(pairs) |-> pairs[i][1]]
Seconds(pairs) == [i \in 1 .. Len(pairs) |-> pairs[i][2]]
ImagesOf(gts) == [i \in 1 .. Len(gts) |-> gts[i].images]
LabelsOf(gts) == [i \in 1 .. Len(gts) |-> gts[i].labels]

\* bug variant: the supervised part first
MutMakeBatch(x_self, y_self, x_super, y_super) ==
    [x |-> <<x_super, x_self>>, y |-> <<y_super, y_self>>]

\* ([x_self, x_super], [y_self, y_super])
MakeBatch(x_self, y_self, x_super, y_super) ==
    [x |-> <<x_self, x_super>>, y |-> <<y_self, y_super>>]

\* Model(inputs=[self_in, super_in], outputs=[self_out, super_out]) with the
\* width of each head
sesemi_model ==
    [inputs  |-> <<"self_data", "super_data">>,
     outputs |-> <<[name |-> "self_clf", units |-> ProxyLabels],
                   [name |-> "super_clf", units |-> NbClasses]>>]

GenInit ==
    /\ super_pos = 0 /\ self_pos = 0 /\ extra_pos = 0
    /\ batch_size \in 0 .. MaxBatch
    /\ super_items = <<>> /\ self_items = <<>> /\ extra_items = <<>>
    /\ inds = <<>>
    /\ pc = "super"
    /\ batch = <<>>
    /\ nyield = 0

\* next(super_iter) returns an item
gen_next_super ==
    /\ pc = "super"
    /\ super_pos' = super_pos + 1
    /\ super_items' = Append(super_items, SuperItem(super_pos + 1))
    /\ pc' = IF Len(super_items) + 1 = SuperBatch THEN "self" ELSE "super"
    /\ UNCHANGED <<self_pos, extra_pos, batch_size, self_items, extra_items, inds,
                   batch, nyield>>
    /\ UNCHANGED <<geoVars, lrVars, stratVars, loadVars, evalVars>>

\* next(super_iter) raises StopIteration
gen_super_exhausted ==
    /\ pc = "super"
    /\ pc' = "RuntimeError"
    /\ UNCHANGED <<super_pos, self_pos, extra_pos, batch_size, super_items,
                   self_items, extra_items, inds, batch, nyield>>
    /\ UNCHANGED <<geoVars, lrVars, stratVars, loadVars, evalVars>>

\* geometric_transform(next(self_iter)) for an item that is there
gen_next_self ==
    /\ pc = "self"
    /\ Len(self_items) < batch_size
    /\ self_pos' = self_pos + 1
    /\ self_items' = Append(self_items, geometric_transform(SelfImage(self_pos + 1), ProxyLabels))
    /\ UNCHANGED <<super_pos, extra_pos, batch_size, super_items, extra_items, inds,
                   pc, batch, nyield>>
    /\ UNCHANGED <<geoVars, lrVars, stratVars, loadVars, evalVars>>

\* bug variant: the StopIteration is swallowed and what was drawn is yielded
Mut_gen_self_exhausted ==
    /\ pc = "self"
    /\ Len(self_items) < batch_size
    /\ batch' = MakeBatch(vstack(ImagesOf(self_items)), vstack(LabelsOf(self_items)),
                          vstack(Firsts(super_items)), vstack(Seconds(super_items)))
    /\ nyield' = nyield + 1
    /\ pc' = "yielded"
    /\ UNCHANGED <<super_pos, self_pos, extra_pos, batch_size, super_items,
                   self_items, extra_items, inds>>
    /\ UNCHANGED <<geoVars, lrVars, stratVars, loadVars, evalVars>>

\* next(self_iter) raises StopIteration
gen_self_exhausted ==
    /\ pc = "self"
    /\ Len(self_items) < batch_size
    /\ pc' = "RuntimeError"
    /\ UNCHANGED <<super_pos, self_pos, extra_pos, batch_size, super_items,
                   self_items, extra_items, inds, batch, nyield>>
    /\ UNCHANGED <<geoVars, lrVars, stratVars, loadVars, evalVars>>

\* "x_self, y_self = zip(*[])": nothing to unpack
gen_unpack_fails ==
    /\ pc = "self"
    /\ Len(self_items) >= batch_size
    /\ self_items = <<>>
    /\ pc' = "ValueError"
    /\ UNCHANGED <<super_pos, self_pos, extra_pos, batch_size, super_items,
                   self_items, extra_items, inds, batch, nyield>>
    /\ UNCHANGED <<geoVars, lrVars, stratVars, loadVars, evalVars>>

\* the four np.vstack and the yield
gen_yield ==
    /\ pc = "self"
    /\ Len(self_items) >= batch_size
    /\ self_items # <<>>
    /\ batch' = MakeBatch(vstack(ImagesOf(self_items)), vstack(LabelsOf(self_items)),
                          vstack(Firsts(super_items)), vstack(Seconds(super_items)))
    /\ nyield' = nyield + 1
    /\ pc' = "yielded"
    /\ UNCHANGED <<super_pos, self_pos, extra_pos, batch_size, super_items,
                   self_items, extra_items, inds>>
    /\ UNCHANGED <<geoVars, lrVars, stratVars, loadVars, evalVars>>

\* the consumer asks for the next batch: the loop starts over
gen_resume ==
    /\ pc = "yielded"
    /\ nyield < MaxRounds
    /\ super_items' = <<>> /\ self_items' = <<>>
    /\ pc' = "super"
    /\ UNCHANGED <<super_pos, self_pos, extra_pos, batch_size, extra_items, inds,
                   batch, nyield>>
    /\ UNCHANGED <<geoVars, lrVars, stratVars, loadVars, evalVars>>

InitGen == GeoIdle /\ LRIdle /\ StratIdle /\ LoadIdle /\ GenInit /\ EvalIdle
NextGen ==
    \/ gen_next_super \/ gen_super_exhausted
    \/ gen_next_self \/ gen_self_exhausted
    \/ gen_unpack_fails \/ gen_yield \/ gen_resume
SpecGen == InitGen /\ [][NextGen]_vars

\* row r (from 1) of the supervised part of the batch that starts after
\* `before` items of super_iter
SuperRowX(before, r) == SuperItem(before + r)[1][1]
SuperRowY(before, r) == SuperItem(before + r)[2][1]
\* the item (from 1) and the view (from 0) of row r of a self-supervised stack
ItemOfRow(r) == ((r - 1) \div 6) + 1
ViewOfRow(r) == (r - 1) % 6

\* C1: for batch_size >= 1 every batch is ([x_self, x_super], [y_self,
\* y_super]), the order of the inputs [self_in, super_in] and of the outputs
\* [self_out, super_out] of the model; x_super and y_super stack 192
\* consecutive items of super_iter in the order drawn, x_self and y_self the
\* 6 views of each of batch_size consecutive items of self_iter, and row r
\* of each y is the label of row r of its x.
C1_BatchLayout ==
    (pc = "yielded" /\ batch_size >= 1) =>
        /\ Len(batch.x) = 2 /\ Len(batch.y) = 2
        /\ sesemi_model.inputs = <<"self_data", "super_data">>
        /\ sesemi_model.outputs[1].name = "self_clf"
        /\ sesemi_model.outputs[2].name = "super_clf"
        \* the supervised part, second
        /\ Len(batch.x[2]) = SuperBatch /\ Len(batch.y[2]) = SuperBatch
        /\ \A r \in 1 .. SuperBatch :
              /\ batch.x[2][r] = SuperRowX(super_pos - SuperBatch, r)
              /\ batch.y[2][r] = SuperRowY(super_pos - SuperBatch, r)
              /\ DOMAIN batch.y[2][r] = 0 .. sesemi_model.outputs[2].units - 1
        \* the self-supervised part, first
        /\ Len(batch.x[1]) = 6 * batch_size /\ Len(batch.y[1]) = 6 * batch_size
        /\ \A r \in 1 .. 6 * batch_size :
              LET gt == geometric_transform(SelfImage(self_pos - batch_size + ItemOfRow(r)), 6)
              IN  /\ batch.x[1][r] = gt.images[ViewOfRow(r) + 1]
                  /\ batch.y[1][r] = gt.labels[ViewOfRow(r) + 1]
                  /\ batch.y[1][r][ViewOfRow(r)] = 1
                  /\ DOMAIN batch.y[1][r] = 0 .. sesemi_model.outputs[1].units - 1

\* a second batch was yielded that holds the views of two or more items
C1_Witness ==
    /\ pc = "yielded" /\ nyield = 2 /\ batch_size >= 2
    /\ Len(batch.x[1]) = 6 * batch_size
    /\ batch.x[1][1] # batch.x[1][7]

C9_Order ==
    \* the counts at the n-th yield
    /\ pc = "yielded" =>
          /\ nyield >= 1
          /\ super_pos = SuperBatch * nyield
          /\ self_pos = batch_size * nyield
          \* the batch is whole and holds the items of this round only
          /\ Len(batch.x[2]) = SuperBatch /\ Len(batch.x[1]) = 6 * batch_size
          /\ \A r \in 1 .. SuperBatch :
                batch.x[2][r] = SuperRowX(SuperBatch * (nyield - 1), r)
          /\ \A r \in 1 .. 6 * batch_size :
                batch.x[1][r] =
                    TransformView(reshape(SelfImage(batch_size * (nyield - 1) + ItemOfRow(r))),
                                  ViewOfRow(r))
    \* in a round all supervised items come before the first self-supervised
    /\ self_pos > batch_size * nyield => super_pos = SuperBatch * (nyield + 1)
    /\ super_pos <= SuperBatch * (nyield + 1)
    /\ self_pos <= batch_size * (nyield + 1)
    \* the generator never returns, and with batch_size >= 1 nothing but an
    \* iterator that ran out ends it
    /\ pc \in {"super", "self", "yielded", "RuntimeError", "ValueError"}
    /\ batch_size >= 1 => pc # "ValueError"

C9_Step ==
    \* a yield hands over a whole round
    /\ nyield' # nyield =>
          /\ nyield' = nyield + 1 /\ pc' = "yielded"
          /\ Len(super_items) = SuperBatch /\ Len(self_items) = batch_size
    \* a StopIteration ends the generator with an error and yields nothing
    /\ (pc' = "RuntimeError" /\ pc # "RuntimeError") =>
          /\ nyield' = nyield /\ batch' = batch
          /\ pc \in {"super", "self"}
    \* an ended generator stays ended
    /\ pc \in {"RuntimeError", "ValueError"} => (pc' = pc /\ nyield' = nyield)
    \* no item is taken twice: the iterators only advance, one item at a time
    /\ super_pos' \in {super_pos, super_pos + 1}
    /\ self_pos' \in {self_pos, self_pos + 1}
    /\ ~(super_pos' # super_pos /\ self_pos' # self_pos)

\* C9: datagen never yields a partial batch and draws in a fixed order: at
\* the n-th yield 192*n items of super_iter and batch_size*n of self_iter
\* have been taken, in each round all 192 supervised items before the first
\* self-supervised one, no item is in two batches, the generator never
\* returns by itself, and an iterator that runs out in the middle of a round
\* ends the generator with an error and without a yield.
C9_DrawOrder == [](C9_Order) /\ [][C9_Step]_vars

\* after one whole batch an iterator ran out in the middle of the second round
C9_Witness ==
    /\ pc = "RuntimeError" /\ nyield = 1
    /\ self_pos > batch_size /\ self_pos < 2 * batch_size
    /\ super_pos = 2 * SuperBatch

(***************************************************************************)
(* datagen_tinyimages(super_iter, self_iter, extra_iter, batch_size): the  *)
(* same loop with a third iterator, whose item n is ExtraImage(n), and a   *)
(* shuffle of the self-supervised rows; pc has the further position        *)
(* "extra".  np.random.shuffle(inds) permutes inds in place: the model     *)
(* draws the permutation from ShufflePerms.                                *)
(***************************************************************************)
\* the permutations drawn turn the array by 0 .. MaxShift places, reversed or not
MaxShift == 2

\* extra_batch = 32 - batch_size
extra_batch == SelfTotal - batch_size

ShufflePerms ==
    {[i \in 1 .. SuperBatch |->
        IF rev THEN SuperBatch - ((i - 1 + k) % SuperBatch)
               ELSE ((i - 1 + k) % SuperBatch) + 1] :
     k \in 0 .. MaxShift, rev \in BOOLEAN}

\* the array after np.random.shuffle moved element perm[i] to place i
Permuted(arr, perm) == [i \in 1 .. Len(arr) |-> arr[perm[i]]]

\* x_self[inds]: row r of the result is row inds[r] of x_self
TakeRows(arr, idx) == [r \in 1 .. Len(idx) |-> arr[idx[r] + 1]]

\* bug variant: the labels are left in the order stacked
MutTakeLabelRows(arr, idx) == arr

\* y_self[inds]
TakeLabelRows(arr, idx) == TakeRows(arr, idx)

TinyInit ==
    /\ super_pos = 0 /\ self_pos = 0 /\ extra_pos = 0
    /\ batch_size \in 0 .. MaxBatch
    /\ super_items = <<>> /\ self_items = <<>> /\ extra_items = <<>>
    /\ inds = [i \in 1 .. SuperBatch |-> i - 1]
    /\ pc = "super"
    /\ batch = <<>>
    /\ nyield = 0

\* next(super_iter) returns an item
tiny_next_super ==
    /\ pc = "super"
    /\ super_pos' = super_pos + 1
    /\ super_items' = Append(super_items, SuperItem(super_pos + 1))
    /\ pc' = IF Len(super_items) + 1 = SuperBatch THEN "self" ELSE "super"
    /\ UNCHANGED <<self_pos, extra_pos, batch_size, self_items, extra_items, inds,
                   batch, nyield>>
    /\ UNCHANGED <<geoVars, lrVars, stratVars, loadVars, evalVars>>

\* next(super_iter) raises StopIteration
tiny_super_exhausted ==
    /\ pc = "super"
    /\ pc' = "RuntimeError"
    /\ UNCHANGED <<super_pos, self_pos, extra_pos, batch_size, super_items,
                   self_items, extra_items, inds, batch, nyield>>
    /\ UNCHANGED <<geoVars, lrVars, stratVars, loadVars, evalVars>>

\* geometric_transform(next(self_iter)) for an item that is there
tiny_next_self ==
    /\ pc = "self"
    /\ Len(self_items) < batch_size
    /\ self_pos' = self_pos + 1
    /\ self_items' = Append(self_items, geometric_transform(SelfImage(self_pos + 1), ProxyLabels))
    /\ UNCHANGED <<super_pos, extra_pos, batch_size, super_items, extra_items, inds,
                   pc, batch, nyield>>
    /\ UNCHANGED <<geoVars, lrVars, stratVars, loadVars, evalVars>>

\* next(self_iter) raises StopIteration
tiny_self_exhausted ==
    /\ pc = "self"
    /\ Len(self_items) < batch_size
    /\ pc' = "RuntimeError"
    /\ UNCHANGED <<super_pos, self_pos, extra_pos, batch_size, super_items,
                   self_items, extra_items, inds, batch, nyield>>
    /\ UNCHANGED <<geoVars, lrVars, stratVars, loadVars, evalVars>>

\* "x_self, y_self = zip(*[...])": unpacked, or nothing to unpack
tiny_unpack_self ==
    /\ pc = "self"
    /\ Len(self_items) >= batch_size
    /\ pc' = IF self_items = <<>> THEN "ValueError" ELSE "extra"
    /\ UNCHANGED <<super_pos, self_pos, extra_pos, batch_size, super_items,
                   self_items, extra_items, inds, batch, nyield>>
    /\ UNCHANGED <<geoVars, lrVars, stratVars, loadVars, evalVars>>

\* geometric_transform(next(extra_iter)) for an item that is there
tiny_next_extra ==
    /\ pc = "extra"
    /\ Len(extra_items) < extra_batch
    /\ extra_pos' = extra_pos + 1
    /\ extra_items' = Append(extra_items, geometric_transform(ExtraImage(extra_pos + 1), ProxyLabels))
    /\ UNCHANGED <<super_pos, self_pos, batch_size, super_items, self_items, inds,
                   pc, batch, nyield>>
    /\ UNCHANGED <<geoVars, lrVars, stratVars, loadVars, evalVars>>

\* next(extra_iter) raises StopIteration
tiny_extra_exhausted ==
    /\ pc = "extra"
    /\ Len(extra_items) < extra_batch
    /\ pc' = "RuntimeError"
    /\ UNCHANGED <<super_pos, self_pos, extra_pos, batch_size, super_items,
                   self_items, extra_items, inds, batch, nyield>>
    /\ UNCHANGED <<geoVars, lrVars, stratVars, loadVars, evalVars>>

\* "x_extra, y_extra = zip(*[])": nothing to unpack
tiny_unpack_extra_fails ==
    /\ pc = "extra"
    /\ Len(extra_items) >= extra_batch
    /\ extra_items = <<>>
    /\ pc' = "ValueError"
    /\ UNCHANGED <<super_pos, self_pos, extra_pos, batch_size, super_items,
                   self_items, extra_items, inds, batch, nyield>>
    /\ UNCHANGED <<geoVars, lrVars, stratVars, loadVars, evalVars>>

\* the four np.vstack, the shuffle in the batch and the yield
tiny_yield ==
    /\ pc = "extra"
    /\ Len(extra_items) >= extra_batch
    /\ extra_items # <<>>
    /\ \E perm \in ShufflePerms :
          LET x_self == vstack(ImagesOf(self_items) \o ImagesOf(extra_items))
              y_self == vstack(LabelsOf(self_items) \o LabelsOf(extra_items))
              shuffled == Permuted(inds, perm)
          IN  /\ inds' = shuffled
              /\ batch' = MakeBatch(TakeRows(x_self, shuffled),
                                    TakeLabelRows(y_self, shuffled),
                                    vstack(Firsts(super_items)),
                                    vstack(Seconds(super_items)))
    /\ nyield' = nyield + 1
    /\ pc' = "yielded"
    /\ UNCHANGED <<super_pos, self_pos, extra_pos, batch_size, super_items,
                   self_items, extra_items>>
    /\ UNCHANGED <<geoVars, lrVars, stratVars, loadVars, evalVars>>

\* the consumer asks for the next batch: the loop starts over
tiny_resume ==
    /\ pc = "yielded"
    /\ nyield < MaxRounds
    /\ super_items' = <<>> /\ self_items' = <<>> /\ extra_items' = <<>>
    /\ pc' = "super"
    /\ UNCHANGED <<super_pos, self_pos, extra_pos, batch_size, inds, batch, nyield>>
    /\ UNCHANGED <<geoVars, lrVars, stratVars, loadVars, evalVars>>

InitTiny == GeoIdle /\ LRIdle /\ StratIdle /\ LoadIdle /\ TinyInit /\ EvalIdle
NextTiny ==
    \/ tiny_next_super \/ tiny_super_exhausted
    \/ tiny_next_self \/ tiny_self_exhausted \/ tiny_unpack_self
    \/ tiny_next_extra \/ tiny_extra_exhausted \/ tiny_unpack_extra_fails
    \/ tiny_yield \/ tiny_resume
SpecTiny == InitTiny /\ [][NextTiny]_vars

UnshuffledX(r) ==
    LET j == ItemOfRow(r)
        flat == IF j <= batch_size
                THEN SelfImage(self_pos - batch_size + j)
                ELSE ExtraImage(extra_pos - extra_batch + (j - batch_size))
    IN  geometric_transform(flat, 6).images[ViewOfRow(r) + 1]

C8_Shuffle ==
    /\ inds # <<>> =>
          /\ Len(inds) = SuperBatch
          /\ {inds[i] : i \in 1 .. Len(inds)} = 0 .. SuperBatch - 1
    /\ pc = "yielded" =>
          /\ Len(batch.x[1]) = SuperBatch /\ Len(batch.y[1]) = SuperBatch
          /\ \A r \in 1 .. SuperBatch :
                \* one permutation for images and labels
                /\ batch.x[1][r] = UnshuffledX(inds[r] + 1)
                /\ batch.y[1][r] = to_categorical(ViewOfRow(inds[r] + 1), 6)
                \* the supervised part in the order drawn
                /\ batch.x[2][r] = SuperRowX(super_pos - SuperBatch, r)
                /\ batch.y[2][r] = SuperRowY(super_pos - SuperBatch, r)

\* C8: in every batch datagen_tinyimages yields, x_self and y_self are the
\* unshuffled stacks reordered by one and the same permutation of all the
\* row positions (the index array stays a permutation however often it was
\* reshuffled in place), so every image keeps its own label and no row is
\* lost or repeated, while x_super and y_super stay in the order drawn.
C8_ShuffleKeepsPairs == C8_Shuffle

\* a second batch was yielded whose index array, reshuffled twice, moved rows
C8_Witness ==
    /\ pc = "yielded" /\ nyield = 2
    /\ inds[1] # 0
    /\ batch.y[1][1] # to_categorical(0, 6)
    /\ self_items # <<>> /\ extra_items # <<>>

(***************************************************************************)
(* DenseEvaluator.  The pixels of a validation image play no part here: an *)
(* image is the record [img, ops] of the validation image it comes from    *)
(* and the operations applied to it, in order; jitter and gaussian_noise   *)
(* draw at random, and their result is some image with that history.  The  *)
(* network behind inference_model is a number, its weights: predict gives  *)
(* every row a score per class that depends on the row and the weights     *)
(* alone, and training changes the weights between two epochs.  ev_pc is   *)
(* "new" before __init__ has run, "ready" after it, "evaluated" after      *)
(* on_epoch_end and "ValueError" when __init__ raised (np.vstack of no     *)
(* array).                                                                 *)
(***************************************************************************)
\* most validation images, largest image number, largest weights
MaxVal == 2
MaxImg == 1
MaxModel == 1

jitter(v) == [img |-> v.img, ops |-> Append(v.ops, "jitter")]
gaussian_noise(v) == [img |-> v.img, ops |-> Append(v.ops, "noise")]
\* np.fliplr of a validation image
hflipped(v) == [img |-> v.img, ops |-> Append(v.ops, "fliplr")]

\* the list appended to self.data for one validation image
ViewsOf(x, flag) ==
    LET t == jitter(x)
        noisy_x == gaussian_noise(x)
        noisy_t == gaussian_noise(t)
        flipx == hflipped(x)
        flipt == hflipped(t)
        noisy_flipx == gaussian_noise(flipx)
        noisy_flipt == gaussian_noise(flipt)
    IN  IF flag
        THEN <<x, t, noisy_x, noisy_t, flipx, flipt, noisy_flipx, noisy_flipt>>
        ELSE <<x, t, noisy_x, noisy_t>>

\* the score the network with weights w gives class c for one row
Score(w, row, c) ==
    ((row.img + 1) * (c + 1) + (w + 1) * (Len(row.ops) + c)
        + (IF row.ops # <<>> /\ row.ops[1] = "jitter" THEN 2 * c ELSE 0)) % 5

\* self.inference_model.predict(rows): one score vector per row, in order
predict(w, rows) ==
    [r \in 1 .. Len(rows) |-> [c \in 0 .. NbClasses - 1 |-> Score(w, rows[r], c)]]

\* bug variant: four rows per image whatever hflip says
MutGroupSize(flag) == 4

\* the 8 or 4 of the reshape in on_epoch_end
GroupSize(flag) == IF flag THEN 8 ELSE 4

\* y_pred.reshape((len(y_pred) // v, v, -1)): group g holds rows v*(g-1)+1 .. v*g
Grouped(preds, v) ==
    [g \in 1 .. (Len(preds) \div v) |-> [j \in 1 .. v |-> preds[v * (g - 1) + j]]]

RECURSIVE SumAt(_, _, _)
SumAt(vecs, c, upto) == IF upto = 0 THEN 0 ELSE vecs[upto][c] + SumAt(vecs, c, upto - 1)

\* .mean(axis=1) of one group: per class the sum over its Len(group) rows
MeanOf(group) ==
    [c \in 0 .. NbClasses - 1 |-> [num |-> SumAt(group, c, Len(group)), den |-> Len(group)]]

\* np.argmax of a vector of fractions with one denominator: the first maximum
argmax(vec) ==
    CHOOSE c \in DOMAIN vec :
        /\ \A d \in DOMAIN vec : vec[d].num <= vec[c].num
        /\ \A d \in DOMAIN vec : d < c => vec[d].num < vec[c].num

\* 1.0 - accuracy_score(y_true, preds), as a fraction
ErrorRate(y_true, preds) ==
    [num |-> Cardinality({k \in 1 .. Len(y_true) : preds[k] # y_true[k]}),
     den |-> Len(y_true)]

EvalInit ==
    /\ \E n \in 0 .. MaxVal :
          /\ \E ids \in [1 .. n -> 0 .. MaxImg] :
                x_val = [k \in 1 .. n |-> [img |-> ids[k], ops |-> <<>>]]
          /\ y_val \in [1 .. n -> 0 .. NbClasses - 1]
    /\ hflip_arg \in BOOLEAN
    /\ inference_model \in 0 .. MaxModel
    /\ data = <<>> /\ ev_labels = <<>> /\ hflip = FALSE
    /\ ev_pc = "new"
    /\ y_pred = <<>> /\ error = <<>>

\* DenseEvaluator(inference_model, (x_val, y_val), hflip)
evaluator_init ==
    /\ ev_pc = "new"
    /\ ev_labels' = y_val
    /\ hflip' = hflip_arg
    /\ IF x_val = <<>>
       THEN /\ ev_pc' = "ValueError"
            /\ data' = <<>>
       ELSE /\ ev_pc' = "ready"
            /\ data' = vstack([k \in 1 .. Len(x_val) |-> ViewsOf(x_val[k], hflip_arg)])
    /\ UNCHANGED <<x_val, y_val, hflip_arg, inference_model, y_pred, error>>
    /\ UNCHANGED <<geoVars, lrVars, stratVars, loadVars, genVars>>

on_epoch_end ==
    /\ ev_pc \in {"ready", "evaluated"}
    /\ LET preds == predict(inference_model, data)
           means == [g \in 1 .. (Len(preds) \div GroupSize(hflip)) |->
                        MeanOf(Grouped(preds, GroupSize(hflip))[g])]
           classes == [g \in 1 .. Len(means) |-> argmax(means[g])]
       IN  /\ y_pred' = classes
           /\ error' = ErrorRate(ev_labels, classes)
    /\ ev_pc' = "evaluated"
    /\ UNCHANGED <<x_val, y_val, hflip_arg, data, ev_labels, hflip, inference_model>>
    /\ UNCHANGED <<geoVars, lrVars, stratVars, loadVars, genVars>>

\* an epoch of training changes the weights of the network
train_epoch ==
    /\ ev_pc = "evaluated"
    /\ \E w \in 0 .. MaxModel : w # inference_model /\ inference_model' = w
    /\ ev_pc' = "ready"
    /\ UNCHANGED <<x_val, y_val, hflip_arg, data, ev_labels, hflip, y_pred, error>>
    /\ UNCHANGED <<geoVars, lrVars, stratVars, loadVars, genVars>>

InitEval == GeoIdle /\ LRIdle /\ StratIdle /\ LoadIdle /\ GenIdle /\ EvalInit
NextEval == evaluator_init \/ on_epoch_end \/ train_epoch
SpecEval == InitEval /\ [][NextEval]_vars

\* V of the claim
Views == IF hflip_arg THEN 8 ELSE 4

\* the score of class c summed over the rows stored for validation image k
\* (from 0)
RECURSIVE TotalScore(_, _, _)
TotalScore(k, c, j) ==
    IF j < 0 THEN 0
    ELSE Score(inference_model, data[Views * k + j + 1], c) + TotalScore(k, c, j - 1)

\* c is the first class with the largest summed (hence averaged) score
IsAveragedClass(k, c) ==
    /\ \A d \in 0 .. NbClasses - 1 : TotalScore(k, d, Views - 1) <= TotalScore(k, c, Views - 1)
    /\ \A d \in 0 .. c - 1 : TotalScore(k, d, Views - 1) < TotalScore(k, c, Views - 1)

\* C4: DenseEvaluator stores V views per validation image (8 with hflip, 4
\* without) in contiguous groups in validation order: row V*k + j of
\* self.data comes from x_val[k] and row V*k is x_val[k] itself; so
\* on_epoch_end averages the predictions of the V rows of each image, gets
\* len(x_val) averaged predictions and compares the k-th with y_val[k].
C4_DenseEvaluator ==
    /\ ev_pc \in {"ready", "evaluated"} =>
          /\ Len(data) = Views * Len(x_val)
          /\ ev_labels = y_val
          /\ \A k \in 0 .. Len(x_val) - 1 :
                /\ data[Views * k + 1] = x_val[k + 1]
                /\ \A j \in 0 .. Views - 1 : data[Views * k + j + 1].img = x_val[k + 1].img
    /\ ev_pc = "evaluated" =>
          /\ Len(y_pred) = Len(x_val)
          /\ \A k \in 0 .. Len(x_val) - 1 :
                /\ y_pred[k + 1] \in 0 .. NbClasses - 1
                /\ IsAveragedClass(k, y_pred[k + 1])
          /\ error.den = Len(x_val)
          /\ error.num = Cardinality({k \in 1 .. Len(x_val) : y_pred[k] # y_val[k]})

\* an epoch ended for two different images with horizontal flips, one
\* classified as labelled and one not
C4_Witness ==
    /\ ev_pc = "evaluated" /\ hflip
    /\ Len(x_val) = 2 /\ x_val[1] # x_val[2]
    /\ Len(data) = 16
    /\ y_pred[1] # y_pred[2]
    /\ error.num = 1

====
